---- MODULE Spec2Model ----
\* Model of examples/simple_state.rs: the SimpleState AIR (one transition
\* constraint over rows of width 3), the SimStateRow view of a flat slice, and
\* the trace generator random_trace, over the BabyBear field.
EXTENDS Integers, Sequences, FiniteSets, TLC

\* ---------------------------------------------------------------- bounds
\* Row count of the generated trace (`let n = 1024` in random_trace); the
\* model generates traces of every row count 1..MaxN.
MaxN == 4
\* Row count of the traces the constraint evaluator is applied to in SpecEval.
MaxEvalRows == 3

\* ------------------------------------------------------------- constants
SS_ROW_WIDTH == 3
SeedBalance == 100000
SeedInput == 12345
SeedOutput == 54321

\* The BabyBear prime 2^31 - 2^27 + 1, written 15 * 2^27 + 1.
P == 15 * (2 ^ 27) + 1

\* ------------------------------------------------ field arithmetic (F = BabyBear)
\* Field elements are modelled by their canonical representative 0..P-1.
FAdd(a, b) == IF a >= P - b THEN a - (P - b) ELSE a + b
FSub(a, b) == IF a >= b THEN a - b ELSE P - (b - a)

\* ------------------------------------------------ u32 arithmetic
\* A u32 is the pair <<hi, lo>> of its 16-bit halves: value = hi * 2^16 + lo.
B16 == 2 ^ 16

U32Lt(a, b) == a[1] < b[1] \/ (a[1] = b[1] /\ a[2] < b[2])
U32Le(a, b) == a = b \/ U32Lt(a, b)

\* a + b on u32: the wrapped sum and whether the exact sum exceeds 2^32 - 1.
U32AddLo(a, b) == a[2] + b[2]
U32AddHi(a, b) == a[1] + b[1] + (U32AddLo(a, b) \div B16)
U32Add(a, b) == <<U32AddHi(a, b) % B16, U32AddLo(a, b) % B16>>
U32AddOverflows(a, b) == U32AddHi(a, b) >= B16

\* a - b on u32, for b <= a.
U32Sub(a, b) ==
    IF a[2] >= b[2] THEN <<a[1] - b[1], a[2] - b[2]>>
    ELSE <<a[1] - b[1] - 1, a[2] + B16 - b[2]>>

\* a * 2 on u32: the wrapped product and whether the exact product exceeds 2^32 - 1.
U32Mul2Hi(a) == a[1] * 2 + ((a[2] * 2) \div B16)
U32Mul2(a) == <<U32Mul2Hi(a) % B16, (a[2] * 2) % B16>>
U32Mul2Overflows(a) == U32Mul2Hi(a) >= B16

\* a / 3 on u32 (truncating).
U32Div3(a) == <<a[1] \div 3, ((a[1] % 3) * B16 + a[2]) \div 3>>

U32Zero == <<0, 0>>
U32One == <<0, 1>>
PU32 == <<P \div B16, P % B16>>

\* as_canonical_u32: the canonical representative as a u32.
as_canonical_u32(f) == <<f \div B16, f % B16>>

\* The integer value of a u32 below P.
U32ToField(x) == x[1] * B16 + x[2]

\* from_canonical_u32: the field element of a u32. The argument is meant to be
\* below P (a debug assertion); a release build reduces it modulo P.
IsCanonical(x) == U32Lt(x, PU32)
from_canonical_u32(x) ==
    IF U32Lt(x, PU32) THEN U32ToField(x)
    ELSE IF U32Lt(U32Sub(x, PU32), PU32) THEN U32ToField(U32Sub(x, PU32))
    ELSE U32ToField(U32Sub(U32Sub(x, PU32), PU32))

\* ------------------------------------------------ Row View (SimStateRow<F>)
\* `struct SimStateRow<F> { balance, input, output }` carries no #[repr(C)], so
\* the offset of each field inside the 3-element chunk that align_to
\* reinterprets is the compiler's choice. A layout <<b, i, o>> gives the
\* offsets (0..2) of balance, input and output.
Layouts ==
    { <<0, 1, 2>>, <<0, 2, 1>>, <<1, 0, 2>>, <<1, 2, 0>>, <<2, 0, 1>>, <<2, 1, 0>> }
DeclaredLayout == <<0, 1, 2>>

\* Number of rows of a flat row-major sequence of width SS_ROW_WIDTH.
Height(vals) == Len(vals) \div SS_ROW_WIDTH

\* Row r (0-based) of the flat sequence seen through the struct.
RowAt(vals, r, lay) ==
    [ balance |-> vals[SS_ROW_WIDTH * r + lay[1] + 1],
      input   |-> vals[SS_ROW_WIDTH * r + lay[2] + 1],
      output  |-> vals[SS_ROW_WIDTH * r + lay[3] + 1] ]

\* rows[r] = row: the struct's three fields stored into the flat sequence.
WriteRow(vals, r, lay, row) ==
    [ k \in DOMAIN vals |->
        IF k = SS_ROW_WIDTH * r + lay[1] + 1 THEN row.balance
        ELSE IF k = SS_ROW_WIDTH * r + lay[2] + 1 THEN row.input
        ELSE IF k = SS_ROW_WIDTH * r + lay[3] + 1 THEN row.output
        ELSE vals[k] ]

\* ------------------------------------------------ Trace Generator (random_trace)
SeedRow_WrongOutput ==
    [ balance |-> SeedBalance, input |-> SeedInput, output |-> SeedOutput - 1 ]
SeedRow ==
    [ balance |-> SeedBalance, input |-> SeedInput, output |-> SeedOutput ]

\* next_balance = last.balance + last.input - last.output, in the field.
NextBalance_NoOutput(last) == FAdd(last.balance, last.input)
NextBalance(last) == FSub(FAdd(last.balance, last.input), last.output)

\* Values rng.gen() can return for next_input: any field element; the model
\* draws the two extremes and one ordinary value.
InputSamples == { 0, SeedInput, P - 1 }

\* high = next_balance.as_canonical_u32() + next_input.as_canonical_u32()
High(nb, ni) == U32Add(as_canonical_u32(nb), as_canonical_u32(ni))
HighOverflows(nb, ni) == U32AddOverflows(as_canonical_u32(nb), as_canonical_u32(ni))

\* low = high * 2 / 3, the product wrapped to 32 bits.
Low(high) == U32Div3(U32Mul2(high))

\* Values rng.gen_range(low..high) can return, for low < high: any integer of
\* [low, high); the model draws both ends and, when it lies in the range,
\* high - P (the integer whose field element equals the field sum).
SampleRange(low, high) ==
    { low, U32Sub(high, U32One) }
        \cup (IF U32Le(PU32, high) /\ U32Le(low, U32Sub(high, PU32))
              THEN { U32Sub(high, PU32) } ELSE {})

VARIABLES
    build,       \* "debug": overflow checks and debug assertions on; "release": off
    layoutG,     \* layout of SimStateRow<F> (random_trace)
    layoutE,     \* layout of SimStateRow<AB::Var> (eval)
    n,           \* row count of the trace
    values,      \* trace.values: the flat row-major sequence
    i,           \* loop index of random_trace: rows 0..i-1 are written
    pc,          \* "gen", "generated", "evaluated", "panicked"
    panic,       \* why the generator panicked, "none" otherwise
    high,        \* high of the last iteration (u32)
    low,         \* low of the last iteration (u32)
    sample,      \* integer returned by gen_range in the last iteration (u32)
    asserted,    \* per row: number of equalities the evaluator asserted on it
    failedRows,  \* rows on which an asserted equality was violated
    lastNext     \* the row presented as `next` for the final row

vars == << build, layoutG, layoutE, n, values, i, pc, panic,
           high, low, sample, asserted, failedRows, lastNext >>

genVars == << high, low, sample >>
evalVars == << asserted, failedRows, lastNext >>

\* vec![F::zero(); n * SS_ROW_WIDTH] with rows[0] set to the seed row.
InitialValues(rows, lay) ==
    WriteRow([k \in 1..(rows * SS_ROW_WIDTH) |-> 0], 0, lay, SeedRow)

\* State before the first loop iteration (lines 71-85).
Init ==
    /\ build \in { "debug", "release" }
    /\ layoutG \in Layouts
    /\ layoutE \in Layouts
    /\ n \in 1..MaxN
    /\ values = InitialValues(n, layoutG)
    /\ i = 1
    /\ pc = "gen"
    /\ panic = "none"
    /\ high = U32Zero /\ low = U32Zero /\ sample = U32Zero
    /\ asserted = << >>
    /\ failedRows = {}
    /\ lastNext = 0

\* A panic inside the loop body: the trace is never returned.
Panics(reason, h, lo, s) ==
    /\ pc' = "panicked"
    /\ panic' = reason
    /\ high' = h /\ low' = lo /\ sample' = s
    /\ UNCHANGED << build, layoutG, layoutE, n, values, i, evalVars >>

\* One iteration of `for i in 1..rows.len()` (lines 86-99).
GenStep ==
    /\ pc = "gen"
    /\ i < n
    /\ \E ni \in InputSamples :
        LET last == RowAt(values, i - 1, layoutG)
            nb   == NextBalance(last)
            h    == High(nb, ni)
            lo   == Low(h)
        IN  IF build = "debug" /\ (HighOverflows(nb, ni) \/ U32Mul2Overflows(h))
            THEN Panics("arithmetic_overflow", h, U32Zero, U32Zero)
            ELSE IF ~U32Lt(lo, h)
            THEN Panics("empty_range", h, lo, U32Zero)
            ELSE \E s \in SampleRange(lo, h) :
                IF build = "debug" /\ ~IsCanonical(s)
                THEN Panics("non_canonical", h, lo, s)
                ELSE /\ values' = WriteRow(values, i, layoutG,
                                    [ balance |-> nb, input |-> ni,
                                      output |-> from_canonical_u32(s) ])
                     /\ i' = i + 1
                     /\ high' = h /\ low' = lo /\ sample' = s
                     /\ UNCHANGED << build, layoutG, layoutE, n, pc, panic, evalVars >>

\* Loop exit and `trace` returned to main (lines 99-101, 159).
GenReturn ==
    /\ pc = "gen"
    /\ i >= n
    /\ pc' = "generated"
    /\ UNCHANGED << build, layoutG, layoutE, n, values, i, panic, genVars, evalVars >>

\* ------------------------------------------------ Constraint Evaluator (SimpleState)
\* width()
Width == SS_ROW_WIDTH

\* when_transition(): the constraint is enforced on every row but the last.
IsTransition_OffByOne(r, rows) == r # rows
IsTransition(r, rows) == r # rows - 1

\* eval: the equalities asserted for one (local, next) pair; `active` is the
\* when_transition() filter.
Eval_NoFilter(local, next, is_transition) ==
    << [ active |-> TRUE,
         lhs |-> FSub(FAdd(local.balance, local.input), local.output),
         rhs |-> next.balance ] >>
Eval_NoOutput(local, next, is_transition) ==
    << [ active |-> is_transition,
         lhs |-> FAdd(local.balance, local.input),
         rhs |-> next.balance ] >>
Eval(local, next, is_transition) ==
    << [ active |-> is_transition,
         lhs |-> FSub(FAdd(local.balance, local.input), local.output),
         rhs |-> next.balance ] >>

\* The constraints of row r of the trace, `nx` being the row presented as
\* `next` for the final row.
RowConstraints(vals, r, nx, lay) ==
    Eval(RowAt(vals, r, lay),
         RowAt(vals, IF r + 1 < Height(vals) THEN r + 1 ELSE nx, lay),
         IsTransition(r, Height(vals)))

\* prove / verify consulting the evaluator on every row of the trace
\* (lines 162-164).
EvalTrace ==
    /\ pc = "generated"
    /\ \E nx \in 0..(Height(values) - 1) :
        /\ lastNext' = nx
        /\ asserted' =
            [ r \in 0..(Height(values) - 1) |->
                Cardinality({ k \in 1..Len(RowConstraints(values, r, nx, layoutE)) :
                                RowConstraints(values, r, nx, layoutE)[k].active }) ]
        /\ failedRows' =
            { r \in 0..(Height(values) - 1) :
                \E k \in 1..Len(RowConstraints(values, r, nx, layoutE)) :
                    LET c == RowConstraints(values, r, nx, layoutE)[k]
                    IN  c.active /\ c.lhs # c.rhs }
    /\ pc' = "evaluated"
    /\ UNCHANGED << build, layoutG, layoutE, n, values, i, panic, genVars >>

Next == GenStep \/ GenReturn \/ EvalTrace

Spec == Init /\ [][Next]_vars

\* ------------------------------------------------ evaluator over arbitrary traces
\* The evaluator is a pure function of the trace: SpecEval applies it to every
\* trace of 1..MaxEvalRows rows over FieldSamples.
FieldSamples == { 0, P - 1 }

InitEval ==
    /\ build = "release"
    /\ layoutG = DeclaredLayout
    /\ layoutE \in Layouts
    /\ n \in 1..MaxEvalRows
    /\ values \in [ 1..(n * SS_ROW_WIDTH) -> FieldSamples ]
    /\ i = n
    /\ pc = "generated"
    /\ panic = "none"
    /\ high = U32Zero /\ low = U32Zero /\ sample = U32Zero
    /\ asserted = << >>
    /\ failedRows = {}
    /\ lastNext = 0

NextEval == EvalTrace

SpecEval == InitEval /\ [][NextEval]_vars

\* ------------------------------------------------ properties
\* Row r as random_trace's struct view sees it, and as eval's view sees it.
G(r) == RowAt(values, r, layoutG)
E(r) == RowAt(values, r, layoutE)

\* c(balance) + c(input) of a row, as an integer (it is below 2^32).
CanonicalSum(row) == U32Add(as_canonical_u32(row.balance), as_canonical_u32(row.input))

\* floor(2 * x / 3) computed without wrapping.
ExactTwoThirds(x) ==
    LET lo2 == x[2] * 2
        hi2 == x[1] * 2 + (lo2 \div B16)
    IN  << hi2 \div 3, ((hi2 % 3) * B16 + (lo2 % B16)) \div 3 >>

\* The transition equality between rows r and r+1 of a view.
TransitionOk(local, next) ==
    next.balance = FSub(FAdd(local.balance, local.input), local.output)

\* C1: every adjacent pair of rows the generator has written satisfies
\* balance[r+1] = balance[r] + input[r] - output[r] in the field.
C1_GeneratedTransitions ==
    \A r \in 0..(i - 2) : TransitionOk(G(r), G(r + 1))

C1_Witness ==
    /\ pc = "generated"
    /\ n >= 3
    /\ G(1).input = P - 1
    /\ ~IsCanonical(sample)

\* C2: for every row r the generator sampled, output[r] lies in
\* [floor(2*(c(balance)+c(input))/3), c(balance)+c(input)), and for every
\* written row c(balance[r]) + c(input[r]) - c(output[r]) is non-negative and
\* equals c(balance[r+1]) as integers, without reduction modulo P.
C2_OutputInRange ==
    /\ \A r \in 1..(i - 1) :
        /\ U32Le(ExactTwoThirds(CanonicalSum(G(r))), as_canonical_u32(G(r).output))
        /\ U32Lt(as_canonical_u32(G(r).output), CanonicalSum(G(r)))
    /\ \A r \in 0..(i - 2) :
        /\ U32Le(as_canonical_u32(G(r).output), CanonicalSum(G(r)))
        /\ as_canonical_u32(G(r + 1).balance)
                = U32Sub(CanonicalSum(G(r)), as_canonical_u32(G(r).output))

\* C3: the evaluator asserts one equality on every transition row and none on
\* the final row, so the final row never fails, whatever its input and output
\* and whatever row is presented as its next row.
C3_OnlyTransitionRows ==
    pc = "evaluated" =>
        /\ \A r \in 0..(n - 1) : asserted[r] = (IF r < n - 1 THEN 1 ELSE 0)
        /\ (n - 1) \notin failedRows
        /\ ((\A r \in 0..(n - 2) : TransitionOk(E(r), E(r + 1))) => failedRows = {})

C3_Witness ==
    /\ pc = "evaluated"
    /\ n >= 2
    /\ failedRows = {}
    /\ lastNext # 0
    /\ E(n - 1).input # E(n - 1).output
    /\ ~TransitionOk(E(n - 1), E(lastNext))

\* C4: evaluation fails on row r whenever rows r and r+1 break the transition
\* equality; it succeeds only if every adjacent pair satisfies it.
C4_CorruptedTraceFails ==
    pc = "evaluated" =>
        \A r \in 0..(n - 2) : ~TransitionOk(E(r), E(r + 1)) => r \in failedRows

C4_Witness ==
    /\ pc = "evaluated"
    /\ n = 3
    /\ TransitionOk(E(0), E(1))
    /\ ~TransitionOk(E(1), E(2))
    /\ failedRows = {1}

C6_SingleRow ==
    n = 1 =>
        /\ pc # "panicked"
        /\ Height(values) = 1
        /\ G(0) = [ balance |-> 100000, input |-> 12345, output |-> 54321 ]
        /\ (pc = "evaluated" => asserted[0] = 0 /\ failedRows = {})

C6_Witness ==
    n = 1 /\ pc = "evaluated" /\ DOMAIN asserted = {0}

\* C7: row 0 is the seed (100000, 12345, 54321) and row 1's balance, once
\* written, is 58024 whatever was sampled.
C7_SeedAndRow1 ==
    /\ G(0) = [ balance |-> 100000, input |-> 12345, output |-> 54321 ]
    /\ (i >= 2 => G(1).balance = 58024)

C7_Witness ==
    /\ i >= 2
    /\ G(1).input = P - 1
    /\ G(1).output # 1342215962

\* C8: when the range [low, high) is empty the sampling step still yields an
\* output and the generator continues; it never aborts on an empty range.
C8_EmptyRangeContinues ==
    ~(pc = "panicked" /\ ~U32Lt(low, high))

\* C9: a step leaves every row written so far unchanged and writes exactly the
\* next row, and the generator stops only with all n rows written.
C9_OnePassAllRows ==
    [][ /\ \A k \in 1..(SS_ROW_WIDTH * i) : values'[k] = values[k]
        /\ i' \in { i, i + 1 }
        /\ (pc' # "gen" => i' = n) ]_vars

\* C10: in every step high * 2 stays below 2^32, low is floor(2 * high / 3), and
\* the sampled integer is below P.
C10_ExactU32 ==
    /\ ~U32Mul2Overflows(high)
    /\ (panic # "arithmetic_overflow" => low = ExactTwoThirds(high))
    /\ IsCanonical(sample)

====
